---- MODULE Spec2Model ----
(***************************************************************************)
(* A model of the two interpreters of uc-rust for the SIMPLE language:     *)
(*   src/src/main.rs                    small-step semantics: Expr::reduce,*)
(*                                      Stmt::reduce and the Machine       *)
(*   src/src/bin/big_step_semantics.rs  big-step semantics: Expr::evalute  *)
(*                                      and Stmt::evalute                  *)
(* Terms are records carrying the variant's name in `tag`; an Environment  *)
(* (HashMap<String, Expr>) is a function from a finite set of names to     *)
(* expressions.  A panic is the record Panic(msg) with the panic message.  *)
(* Numbers are i64 in the source; every number the bounded model computes  *)
(* stays far below 2^31, so no addition or multiplication overflows here.  *)
(***************************************************************************)
EXTENDS Integers, Sequences, FiniteSets, TLC

VARIABLES
    prog,    \* the statement the host constructed
    env0,    \* the environment the host constructed
    caller,  \* "run": the host calls Machine::run; "host": it calls Machine::step itself
    stmt,    \* Machine.stmt
    env,     \* Machine.env
    pc,      \* position in Machine::run / of the host
    out,     \* the lines Machine::run printed, as (stmt, env) pairs
    nsteps,  \* number of calls of Machine::step that returned
    err,     \* the message of the panic that ended the small-step program, or NoPanic
    big,     \* outcome of big-step Stmt::evalute(prog, env0)
    expr,    \* an expression the host holds
    eret,    \* outcome of the last direct call of Expr::reduce
    ebig     \* outcome of big-step Expr::evalute(expr, env0)

vars == <<prog, env0, caller, stmt, env, pc, out, nsteps, err, big, expr, eret, ebig>>

(***************************************************************************)
(* Bounds of the model.                                                    *)
(***************************************************************************)
MaxNum == 2      \* number literals of the generated terms are 0..MaxNum
MaxSteps == 24   \* calls of Machine::step explored per run
Fuel == MaxSteps \* iterations of a While that big-step evaluation is followed for

(***************************************************************************)
(* Panic messages of the source.                                           *)
(***************************************************************************)
NoPanic == "none"
InvalidExpr == "invalid expr"
InvalidCondition == "invalid condition"
\* panic!("`reduce()` not supported"); a string of the module cannot hold a backquote
ReduceNotSupported == "reduce() not supported"
NoEntryFound == "no entry found for key"

Panic(msg) == [tag |-> "Panic", msg |-> msg]
IsPanic(r) == r.tag = "Panic"

(***************************************************************************)
(* enum Expr                                                               *)
(***************************************************************************)
Number(n) == [tag |-> "Number", n |-> n]
Boolean(b) == [tag |-> "Boolean", b |-> b]
Variable(name) == [tag |-> "Variable", name |-> name]
Add(l, r) == [tag |-> "Add", l |-> l, r |-> r]
Multiply(l, r) == [tag |-> "Multiply", l |-> l, r |-> r]
LessThan(l, r) == [tag |-> "LessThan", l |-> l, r |-> r]

(***************************************************************************)
(* enum Stmt                                                               *)
(***************************************************************************)
DoNothing == [tag |-> "DoNothing"]
Assign(name, e) == [tag |-> "Assign", name |-> name, expr |-> e]
If(c, s1, s2) ==
    [tag |-> "If", condition |-> c, consequence |-> s1, alternative |-> s2]
Sequence(s1, s2) == [tag |-> "Sequence", first |-> s1, second |-> s2]
While(c, b) == [tag |-> "While", condition |-> c, body |-> b]

(***************************************************************************)
(* Environment: HashMap<String, Expr>.                                     *)
(***************************************************************************)
\* a faulty insert: a name that is bound keeps its binding
InsertIfAbsent(e, name, val) ==
    [k \in DOMAIN e \cup {name} |-> IF k \in DOMAIN e THEN e[k] ELSE val]
Insert(e, name, val) ==
    [k \in DOMAIN e \cup {name} |-> IF k = name THEN val ELSE e[k]]
\* a faulty lookup: an absent name reads as Number(0)
LookupDefault(e, name) == IF name \in DOMAIN e THEN e[name] ELSE Number(0)
\* env[name]: std's Index for HashMap panics when the key is absent
Lookup(e, name) == IF name \in DOMAIN e THEN e[name] ELSE Panic(NoEntryFound)

(***************************************************************************)
(* Small-step semantics of expressions (main.rs).                          *)
(***************************************************************************)
ExprIsReducible(e) ==
    CASE e.tag = "Number" -> FALSE
      [] e.tag = "Add" -> TRUE
      [] e.tag = "Multiply" -> TRUE
      [] e.tag = "Boolean" -> FALSE
      [] e.tag = "LessThan" -> TRUE
      [] e.tag = "Variable" -> TRUE

\* a faulty collapse: Multiply built with Add's arm
CollapseAddForMultiply(op, l, r) ==
    IF l.tag = "Number" /\ r.tag = "Number"
    THEN CASE op = "Add" -> Number(l.n + r.n)
           [] op = "Multiply" -> Number(l.n + r.n)
           [] op = "LessThan" -> Boolean(l.n < r.n)
    ELSE Panic(InvalidExpr)
\* a faulty collapse: a Boolean operand counts as 0 or 1
CollapseLenient(op, l, r) ==
    LET num(v) == IF v.tag = "Number" THEN v.n
                  ELSE IF v.tag = "Boolean" /\ v.b THEN 1 ELSE 0
    IN  CASE op = "Add" -> Number(num(l) + num(r))
          [] op = "Multiply" -> Number(num(l) * num(r))
          [] op = "LessThan" -> Boolean(num(l) < num(r))
\* the last arm of each binary operator: both operands are irreducible
Collapse(op, l, r) ==
    IF l.tag = "Number" /\ r.tag = "Number"
    THEN CASE op = "Add" -> Number(l.n + r.n)
           [] op = "Multiply" -> Number(l.n * r.n)
           [] op = "LessThan" -> Boolean(l.n < r.n)
    ELSE Panic(InvalidExpr)

Rebuild(op, l, r) == [tag |-> op, l |-> l, r |-> r]

\* a faulty order: the right operand is reduced while the left is still reducible
RECURSIVE ExprReduceRightFirst(_, _)
ExprReduceRightFirst(e, en) ==
    IF e.tag \in {"Add", "Multiply", "LessThan"}
    THEN IF ExprIsReducible(e.r)
         THEN LET r2 == ExprReduceRightFirst(e.r, en)
              IN  IF IsPanic(r2) THEN r2 ELSE Rebuild(e.tag, e.l, r2)
         ELSE IF ExprIsReducible(e.l)
         THEN LET l2 == ExprReduceRightFirst(e.l, en)
              IN  IF IsPanic(l2) THEN l2 ELSE Rebuild(e.tag, l2, e.r)
         ELSE Collapse(e.tag, e.l, e.r)
    ELSE IF e.tag = "Variable"
    THEN Lookup(en, e.name)
    ELSE Panic(ReduceNotSupported)

RECURSIVE ExprReduce(_, _)
ExprReduce(e, en) ==
    IF e.tag \in {"Add", "Multiply", "LessThan"}
    THEN IF ExprIsReducible(e.l)
         THEN LET l2 == ExprReduce(e.l, en)
              IN  IF IsPanic(l2) THEN l2 ELSE Rebuild(e.tag, l2, e.r)
         ELSE IF ExprIsReducible(e.r)
         THEN LET r2 == ExprReduce(e.r, en)
              IN  IF IsPanic(r2) THEN r2 ELSE Rebuild(e.tag, e.l, r2)
         ELSE Collapse(e.tag, e.l, e.r)
    ELSE IF e.tag = "Variable"
    THEN Lookup(en, e.name)
    ELSE Panic(ReduceNotSupported)

(***************************************************************************)
(* Small-step semantics of statements (main.rs).  Stmt::reduce returns the *)
(* pair Ok(stmt, env) or panics.                                           *)
(***************************************************************************)
Ok(s, en) == [tag |-> "Ok", stmt |-> s, env |-> en]

StmtIsReducible(s) ==
    CASE s.tag = "DoNothing" -> FALSE
      [] s.tag = "Assign" -> TRUE
      [] s.tag = "If" -> TRUE
      [] s.tag = "Sequence" -> TRUE
      [] s.tag = "While" -> TRUE

\* the arm `_ => panic!(..)` of Stmt::reduce
\* a faulty fallthrough arm: the term is returned as it is
ReduceOtherNoop(s, en) == Ok(s, en)
ReduceOther(s, en) == Panic(ReduceNotSupported)

\* faulty Assign arms: the binding is made in the step that makes the expression
\* a literal; the expression is bound as it is written
ReduceAssignEager(s, en) ==
    IF ExprIsReducible(s.expr)
    THEN LET e2 == ExprReduce(s.expr, en)
         IN  IF IsPanic(e2) THEN e2
             ELSE IF ExprIsReducible(e2) THEN Ok(Assign(s.name, e2), en)
             ELSE Ok(DoNothing, Insert(en, s.name, e2))
    ELSE Ok(DoNothing, Insert(en, s.name, s.expr))
ReduceAssignUnreduced(s, en) == Ok(DoNothing, Insert(en, s.name, s.expr))
ReduceAssign(s, en) ==
    IF ExprIsReducible(s.expr)
    THEN LET e2 == ExprReduce(s.expr, en)
         IN  IF IsPanic(e2) THEN e2 ELSE Ok(Assign(s.name, e2), en)
    ELSE Ok(DoNothing, Insert(en, s.name, s.expr))

\* a faulty If arm: every condition but Boolean(false) selects the consequence
ReduceIfTruthy(s, en) ==
    IF ExprIsReducible(s.condition)
    THEN LET c2 == ExprReduce(s.condition, en)
         IN  IF IsPanic(c2) THEN c2
             ELSE Ok(If(c2, s.consequence, s.alternative), en)
    ELSE IF s.condition = Boolean(FALSE) THEN Ok(s.alternative, en)
    ELSE Ok(s.consequence, en)
\* a faulty If arm: the selected Assign is reduced in the same step
ReduceIfEager(s, en) ==
    IF ExprIsReducible(s.condition)
    THEN LET c2 == ExprReduce(s.condition, en)
         IN  IF IsPanic(c2) THEN c2
             ELSE Ok(If(c2, s.consequence, s.alternative), en)
    ELSE IF s.condition = Boolean(TRUE)
    THEN IF s.consequence.tag = "Assign"
         THEN ReduceAssign(s.consequence, en) ELSE Ok(s.consequence, en)
    ELSE IF s.condition = Boolean(FALSE) THEN Ok(s.alternative, en)
    ELSE Panic(InvalidCondition)
ReduceIf(s, en) ==
    IF ExprIsReducible(s.condition)
    THEN LET c2 == ExprReduce(s.condition, en)
         IN  IF IsPanic(c2) THEN c2
             ELSE Ok(If(c2, s.consequence, s.alternative), en)
    ELSE IF s.condition = Boolean(TRUE) THEN Ok(s.consequence, en)
    ELSE IF s.condition = Boolean(FALSE) THEN Ok(s.alternative, en)
    ELSE Panic(InvalidCondition)

\* faulty While arms: the loop is dropped after one pass; the loop is unfolded twice
ReduceWhileOnce(s, en) == Ok(If(s.condition, s.body, DoNothing), en)
ReduceWhileEager(s, en) ==
    Ok(If(s.condition, Sequence(s.body, If(s.condition, Sequence(s.body, s), DoNothing)),
          DoNothing), en)
ReduceWhile(s, en) ==
    Ok(If(s.condition, Sequence(s.body, s), DoNothing), en)

\* a faulty Sequence arm: second is reduced while first is not DoNothing yet
RECURSIVE StmtReduceSecondFirst(_, _)
StmtReduceSecondFirst(s, en) ==
    CASE s.tag = "Assign" -> ReduceAssign(s, en)
      [] s.tag = "If" -> ReduceIf(s, en)
      [] s.tag = "Sequence" ->
            IF s.first = DoNothing
            THEN Ok(s.second, en)
            ELSE IF s.second # DoNothing
            THEN LET r == StmtReduceSecondFirst(s.second, en)
                 IN  IF IsPanic(r) THEN r
                     ELSE Ok(Sequence(s.first, r.stmt), r.env)
            ELSE LET r == StmtReduceSecondFirst(s.first, en)
                 IN  IF IsPanic(r) THEN r
                     ELSE Ok(Sequence(r.stmt, s.second), r.env)
      [] s.tag = "While" -> ReduceWhile(s, en)
      [] OTHER -> ReduceOther(s, en)

RECURSIVE StmtReduce(_, _)
StmtReduce(s, en) ==
    CASE s.tag = "Assign" -> ReduceAssign(s, en)
      [] s.tag = "If" -> ReduceIf(s, en)
      [] s.tag = "Sequence" ->
            IF s.first = DoNothing
            THEN Ok(s.second, en)
            ELSE LET r == StmtReduce(s.first, en)
                 IN  IF IsPanic(r) THEN r
                     ELSE Ok(Sequence(r.stmt, s.second), r.env)
      [] s.tag = "While" -> ReduceWhile(s, en)
      [] OTHER -> ReduceOther(s, en)

(***************************************************************************)
(* Big-step semantics (bin/big_step_semantics.rs).                         *)
(***************************************************************************)
\* a faulty evalute: the right operand is evaluated before the left one
RECURSIVE ExprEvaluteRightFirst(_, _)
ExprEvaluteRightFirst(e, en) ==
    CASE e.tag = "Number" -> e
      [] e.tag = "Boolean" -> e
      [] e.tag = "Variable" -> Lookup(en, e.name)
      [] OTHER ->
            LET b == ExprEvaluteRightFirst(e.r, en)
            IN  IF IsPanic(b) THEN b
                ELSE LET a == ExprEvaluteRightFirst(e.l, en)
                     IN  IF IsPanic(a) THEN a ELSE Collapse(e.tag, a, b)

\* a faulty evalute: operands that are not both numbers are returned in the
\* node instead of panicking
RECURSIVE ExprEvalutePartial(_, _)
ExprEvalutePartial(e, en) ==
    CASE e.tag = "Number" -> e
      [] e.tag = "Boolean" -> e
      [] e.tag = "Variable" -> Lookup(en, e.name)
      [] OTHER ->
            LET a == ExprEvalutePartial(e.l, en)
            IN  IF IsPanic(a) THEN a
                ELSE LET b == ExprEvalutePartial(e.r, en)
                     IN  IF IsPanic(b) THEN b
                         ELSE IF a.tag = "Number" /\ b.tag = "Number"
                         THEN Collapse(e.tag, a, b)
                         ELSE Rebuild(e.tag, a, b)

RECURSIVE ExprEvalute(_, _)
ExprEvalute(e, en) ==
    CASE e.tag = "Number" -> e
      [] e.tag = "Boolean" -> e
      [] e.tag = "Variable" -> Lookup(en, e.name)
      [] OTHER ->
            \* the tuple (l.evalute(env), r.evalute(env)) is built left to right
            LET a == ExprEvalute(e.l, en)
            IN  IF IsPanic(a) THEN a
                ELSE LET b == ExprEvalute(e.r, en)
                     IN  IF IsPanic(b) THEN b ELSE Collapse(e.tag, a, b)

\* Outcomes of Stmt::evalute: it returns an environment, panics, or is still
\* recursing on a While after Fuel iterations.
Returned(en) == [tag |-> "Returned", env |-> en]
Recursing == [tag |-> "Recursing"]

RECURSIVE StmtEvalute(_, _, _)
StmtEvalute(s, en, fuel) ==
    CASE s.tag = "DoNothing" -> Returned(en)
      [] s.tag = "Assign" ->
            LET v == ExprEvalute(s.expr, en)
            IN  IF IsPanic(v) THEN v ELSE Returned(Insert(en, s.name, v))
      [] s.tag = "If" ->
            LET c == ExprEvalute(s.condition, en)
            IN  IF IsPanic(c) THEN c
                ELSE IF c = Boolean(TRUE) THEN StmtEvalute(s.consequence, en, fuel)
                ELSE IF c = Boolean(FALSE) THEN StmtEvalute(s.alternative, en, fuel)
                ELSE Panic(InvalidCondition)
      [] s.tag = "Sequence" ->
            LET r == StmtEvalute(s.first, en, fuel)
            IN  IF r.tag = "Returned" THEN StmtEvalute(s.second, r.env, fuel) ELSE r
      [] s.tag = "While" ->
            LET c == ExprEvalute(s.condition, en)
            IN  IF IsPanic(c) THEN c
                ELSE IF c = Boolean(TRUE)
                THEN LET r == StmtEvalute(s.body, en, fuel)
                     IN  IF r.tag # "Returned" THEN r
                         ELSE IF fuel = 0 THEN Recursing
                         ELSE StmtEvalute(s, r.env, fuel - 1)
                ELSE IF c = Boolean(FALSE) THEN Returned(en)
                ELSE Panic(InvalidCondition)

(***************************************************************************)
(* What the host constructs: the terms and environments the model is run   *)
(* on.  Scenario is the program of main() in main.rs and of the test       *)
(* evalute_while, ScenarioEnv its environment.                             *)
(***************************************************************************)
Names == {"x", "y"}
BinOps == {"Add", "Multiply", "LessThan"}
X == Variable("x")
Y == Variable("y")

NumLits == {Number(n) : n \in 0..MaxNum}
Lits == NumLits \cup {Boolean(TRUE), Boolean(FALSE)}
Atoms == Lits \cup {Variable(n) : n \in Names}
InnerExprs == {Add(X, Number(1)), LessThan(Number(0), Y), Number(1), Y}
ExprSet ==
    Atoms \cup {Rebuild(op, l, r) : op \in BinOps, l \in Atoms, r \in Atoms}
          \cup {Rebuild(op, l, r) : op \in BinOps, l \in InnerExprs, r \in InnerExprs}

\* an environment may bind a name to any Expr, a literal or not
EnvVals == {Number(1), Boolean(TRUE), Add(Number(1), Number(1))}
EnvSet == UNION {[D -> EnvVals] : D \in SUBSET Names}

Scenario == While(LessThan(X, Number(5)), Assign("x", Multiply(X, Number(3))))
ScenarioEnv == [k \in {"x"} |-> Number(1)]

Bodies ==
    {DoNothing, Assign("x", Add(X, Number(1))), Assign("y", Number(1)),
     Assign("y", X), Assign("x", Multiply(X, Y))}
Conds ==
    {Boolean(TRUE), Boolean(FALSE), Number(1), Y, LessThan(X, Number(MaxNum)),
     LessThan(X, Y), Add(X, Number(1))}
AssignSet == {Assign(n, e) : n \in Names, e \in ExprSet}
WhileSet == {While(c, b) : c \in Conds, b \in Bodies}
Loops == {While(LessThan(X, Number(MaxNum)), Assign("x", Add(X, Number(1)))),
          While(Y, Assign("y", LessThan(X, X))),
          While(Boolean(TRUE), DoNothing)}
IfSet == {If(c, a, b) : c \in Conds, a \in Bodies \cup Loops, b \in Bodies}
SeqSet == {Sequence(a, b) : a \in Bodies \cup Loops, b \in Bodies \cup Loops}
NestedSet ==
    {While(LessThan(X, Number(MaxNum)),
           Sequence(Assign("y", Add(X, X)), Assign("x", Add(X, Number(1))))),
     While(LessThan(X, Number(MaxNum)),
           If(Y, Assign("x", Add(X, Number(1))), Assign("y", Boolean(TRUE)))),
     Sequence(Sequence(Assign("x", Number(0)), Assign("y", X)), Assign("x", Y)),
     Scenario}
ProgSet == {DoNothing} \cup AssignSet \cup WhileSet \cup IfSet \cup SeqSet \cup NestedSet

(***************************************************************************)
(* The state after construction.  The host either builds a Machine and     *)
(* calls run() (main.rs), or builds one and calls step() itself, or holds  *)
(* an expression and calls Expr::reduce on it.                             *)
(***************************************************************************)
Pending == [tag |-> "Pending"]

InitMachine ==
    /\ caller \in {"run", "host"}
    /\ \/ prog \in ProgSet /\ env0 \in EnvSet
       \/ prog = Scenario /\ env0 = ScenarioEnv
    /\ stmt = prog
    /\ env = env0
    /\ pc = caller
    /\ expr = Number(0)

InitExpr ==
    /\ caller = "expr"
    /\ prog = DoNothing
    /\ env0 \in EnvSet
    /\ stmt = prog
    /\ env = env0
    /\ pc = caller
    /\ expr \in ExprSet

Init ==
    /\ InitMachine \/ InitExpr
    /\ out = <<>>
    /\ nsteps = 0
    /\ err = NoPanic
    /\ big = Pending
    /\ eret = Pending
    /\ ebig = Pending

(***************************************************************************)
(* Machine::step: the pair is replaced only after reduce has returned.     *)
(***************************************************************************)
\* a faulty step: the statement is cleared when reduce panics
MachineStepTorn(back) ==
    LET r == StmtReduce(stmt, env)
    IN  IF IsPanic(r)
        THEN /\ err' = r.msg
             /\ pc' = "panic"
             /\ stmt' = DoNothing
             /\ UNCHANGED <<env, nsteps>>
        ELSE /\ stmt' = r.stmt
             /\ env' = r.env
             /\ nsteps' = nsteps + 1
             /\ pc' = back
             /\ UNCHANGED err
MachineStep(back) ==
    LET r == StmtReduce(stmt, env)
    IN  IF IsPanic(r)
        THEN /\ err' = r.msg
             /\ pc' = "panic"
             /\ UNCHANGED <<stmt, env, nsteps>>
        ELSE /\ stmt' = r.stmt
             /\ env' = r.env
             /\ nsteps' = nsteps + 1
             /\ pc' = back
             /\ UNCHANGED err

(***************************************************************************)
(* Machine::run                                                            *)
(***************************************************************************)
\* a faulty loop test: the body of the loop runs whatever the statement is
RunObserveAlways ==
    /\ pc = "run"
    /\ out' = Append(out, [stmt |-> stmt, env |-> env])
    /\ pc' = "step"
    /\ UNCHANGED <<prog, env0, caller, stmt, env, nsteps, err, big, expr, eret, ebig>>
\* a faulty loop: run gives up after eight steps
RunObserveCapped ==
    /\ pc = "run"
    /\ StmtIsReducible(stmt)
    /\ out' = Append(out, [stmt |-> stmt, env |-> env])
    /\ pc' = IF nsteps < 8 THEN "step" ELSE "done"
    /\ UNCHANGED <<prog, env0, caller, stmt, env, nsteps, err, big, expr, eret, ebig>>
\* the loop test succeeded: println!, then step()
RunObserve ==
    /\ pc = "run"
    /\ StmtIsReducible(stmt)
    /\ out' = Append(out, [stmt |-> stmt, env |-> env])
    /\ pc' = "step"
    /\ UNCHANGED <<prog, env0, caller, stmt, env, nsteps, err, big, expr, eret, ebig>>

RunStep ==
    /\ pc = "step"
    /\ nsteps < MaxSteps
    /\ MachineStep("run")
    /\ UNCHANGED <<prog, env0, caller, out, big, expr, eret, ebig>>

\* the loop test failed: the last println!, and run returns
RunFinish ==
    /\ pc = "run"
    /\ ~StmtIsReducible(stmt)
    /\ out' = Append(out, [stmt |-> stmt, env |-> env])
    /\ pc' = "done"
    /\ UNCHANGED <<prog, env0, caller, stmt, env, nsteps, err, big, expr, eret, ebig>>

(***************************************************************************)
(* The host calls Machine::step itself, reducible or not.                  *)
(***************************************************************************)
HostStep ==
    /\ pc = "host"
    /\ nsteps < MaxSteps
    /\ MachineStep("host")
    /\ UNCHANGED <<prog, env0, caller, out, big, expr, eret, ebig>>

(***************************************************************************)
(* Big-step evaluation of the same program and environment.                *)
(***************************************************************************)
Evaluate ==
    /\ caller \in {"run", "host"}
    /\ big = Pending
    /\ big' = StmtEvalute(prog, env0, Fuel)
    /\ UNCHANGED <<prog, env0, caller, stmt, env, pc, out, nsteps, err, expr, eret, ebig>>

(***************************************************************************)
(* Direct calls on an expression: reduce replaces the expression the host  *)
(* holds when it returns; evalute is applied to the expression constructed.*)
(***************************************************************************)
CallExprReduce ==
    /\ pc = "expr"
    /\ LET r == ExprReduce(expr, env)
       IN  /\ eret' = r
           /\ IF IsPanic(r)
              THEN pc' = "panic" /\ err' = r.msg /\ UNCHANGED <<expr, nsteps>>
              ELSE expr' = r /\ nsteps' = nsteps + 1 /\ UNCHANGED <<pc, err>>
    /\ UNCHANGED <<prog, env0, caller, stmt, env, out, big, ebig>>

CallExprEvalute ==
    /\ caller = "expr"
    /\ ebig = Pending
    /\ nsteps = 0
    /\ ebig' = ExprEvalute(expr, env0)
    /\ UNCHANGED <<prog, env0, caller, stmt, env, pc, out, nsteps, err, big, expr, eret>>

Next ==
    \/ RunObserve
    \/ RunStep
    \/ RunFinish
    \/ HostStep
    \/ Evaluate
    \/ CallExprReduce
    \/ CallExprEvalute

Spec == Init /\ [][Next]_vars

(***************************************************************************)
(* Machine::run as a function: the number of calls of step() it makes from *)
(* (s, en) until the statement is not reducible; -1 when a step panics or  *)
(* more than `fuel` steps are needed.                                      *)
(***************************************************************************)
RECURSIVE RunLength(_, _, _)
RunLength(s, en, fuel) ==
    IF ~StmtIsReducible(s) THEN 0
    ELSE IF fuel = 0 THEN -1
    ELSE LET r == StmtReduce(s, en)
         IN  IF IsPanic(r) THEN -1
             ELSE LET n == RunLength(r.stmt, r.env, fuel - 1)
                  IN  IF n < 0 THEN -1 ELSE n + 1

TypeOK ==
    /\ caller \in {"run", "host", "expr"}
    /\ pc \in {"run", "step", "done", "host", "expr", "panic"}
    /\ nsteps \in 0..MaxSteps
    /\ Len(out) \in IF caller = "run" THEN {nsteps, nsteps + 1} ELSE {0}

(***************************************************************************)
(* Properties.                                                             *)
(***************************************************************************)
IsLiteral(e) == e.tag \in {"Number", "Boolean"}
LiteralEnv(en) == \A k \in DOMAIN en : IsLiteral(en[k])
Machines == {"run", "host"}
\* a call of Machine::step has been made in this transition
Stepped == caller \in Machines /\ (nsteps' # nsteps \/ err' # err)
Unfolded(w) == If(w.condition, Sequence(w.body, w), DoNothing)
LastOut == out[Len(out)]

\* C1 as stated: whenever big-step evaluation of (prog, env0) returns and the
\* Machine started from (prog, env0) has reached DoNothing, the environment
\* returned equals the Machine's environment, for every initial environment.
C1_AgreementEveryEnv ==
    (caller \in Machines /\ stmt = DoNothing /\ big.tag = "Returned")
        => big.env = env

\* C1, amended: for an initial environment that binds every name to a Number
\* or Boolean literal, once the Machine started from (prog, env0) has reached
\* DoNothing, big-step evaluation of (prog, env0) returns exactly the Machine's
\* environment; and when big-step evaluation returns, the run of the Machine
\* does not panic.
C1_Agreement ==
    (caller \in Machines /\ LiteralEnv(env0) /\ big # Pending) =>
        /\ stmt = DoNothing => big = Returned(env)
        /\ (big.tag = "Returned" /\ caller = "run") => pc # "panic"

C1_Witness ==
    /\ pc = "done"
    /\ prog.tag = "While"
    /\ LiteralEnv(env0)
    /\ nsteps > 8
    /\ env # env0
    /\ big = Returned(env)

C2_UnfoldStep ==
    /\ stmt.tag = "While" =>
          /\ err' = err
          /\ stmt' = If(stmt.condition, Sequence(stmt.body, stmt), DoNothing)
          /\ env' = env
    /\ (stmt.tag = "Sequence" /\ stmt.first.tag = "While") =>
          /\ err' = err
          /\ stmt' = Sequence(Unfolded(stmt.first), stmt.second)
          /\ env' = env
\* C2: one step of the Machine on While(c, b) yields exactly
\* If(c, Sequence(b, While(c, b)), DoNothing) and the same environment, and
\* never panics; the same holds for a While that is the first of a Sequence.
C2_LoopUnfolding == [][Stepped => C2_UnfoldStep]_vars

C2_Witness ==
    /\ prog.tag = "While"
    /\ ExprIsReducible(prog.condition)
    /\ prog.body.tag = "Assign"
    /\ nsteps = 1
    /\ stmt = If(prog.condition, Sequence(prog.body, prog), DoNothing)
    /\ env = env0

C3_RunState ==
    /\ pc = "run" => Len(out) = nsteps
    /\ pc = "step" =>
          /\ StmtIsReducible(stmt)
          /\ Len(out) = nsteps + 1
          /\ LastOut = [stmt |-> stmt, env |-> env]
    /\ pc = "done" =>
          /\ stmt = DoNothing
          /\ Len(out) = nsteps + 1
          /\ LastOut = [stmt |-> stmt, env |-> env]
    /\ stmt = DoNothing => pc \in {"run", "done"}
C3_RunStep ==
    /\ Stepped => pc = "step" /\ StmtIsReducible(stmt)
    /\ pc = "done" => UNCHANGED <<stmt, env, pc, out, nsteps, err>>
    /\ (pc = "run" /\ pc' = "done") => stmt = DoNothing
\* C3: Machine::run calls step() only on a reducible statement whose pair it
\* has just printed, prints exactly one pair per step, returns only when the
\* statement is DoNothing with that pair printed last, and does nothing after.
C3_RunDiscipline ==
    /\ [](caller = "run" => C3_RunState)
    /\ [][caller = "run" => C3_RunStep]_vars

C3_Witness ==
    /\ pc = "done"
    /\ nsteps >= 3
    /\ Len(out) = nsteps + 1
    /\ out[1] = [stmt |-> prog, env |-> env0]

IsScenario == caller \in Machines /\ prog = Scenario /\ env0 = ScenarioEnv
XIs(en, n) == en = [k \in {"x"} |-> Number(n)]
RunMeasure == 2 * nsteps + (IF pc = "run" THEN 0 ELSE 1)
C4_ScenarioState ==
    /\ XIs(env, 1) \/ XIs(env, 3) \/ XIs(env, 9)
    /\ stmt = DoNothing => XIs(env, 9)
    /\ big # Pending => big = Returned([k \in {"x"} |-> Number(9)])
    /\ StmtIsReducible(stmt) => pc # "panic"
    /\ big = Pending => ENABLED Evaluate
    /\ caller = "run" =>
          /\ RunMeasure <= 2 * 20 + 1
          /\ pc = "done" \/ ENABLED (RunObserve \/ RunStep \/ RunFinish)
C4_ScenarioStep ==
    /\ \/ env' = env
       \/ XIs(env, 1) /\ XIs(env', 3)
       \/ XIs(env, 3) /\ XIs(env', 9)
    /\ (caller = "run" /\ <<stmt, env, pc, out>> # <<stmt', env', pc', out'>>)
          => RunMeasure' > RunMeasure
\* C4: the program of main() started with x = 1 terminates in both semantics
\* with the environment exactly {x: 9}; along the small-step run x is bound
\* to 1, then 3, then 9 and to nothing else, and no step panics.  Termination
\* of the run: until run() has returned its next step is enabled, and every
\* step of it increases a measure that never exceeds 2 * 20 + 1.
C4_Scenario ==
    /\ [](IsScenario => C4_ScenarioState)
    /\ [][IsScenario => C4_ScenarioStep]_vars

C4_Witness ==
    /\ IsScenario
    /\ pc = "done"
    /\ nsteps = 20
    /\ XIs(env, 9)
    /\ big = Returned(env)
    /\ \E i \in 1..Len(out) : XIs(out[i].env, 3)

\* C5: when the Machine started from (While(c, b), E) has reached DoNothing,
\* the number of steps it took is 1 plus the number of steps Machine::run
\* takes from (If(c, Sequence(b, While(c, b)), DoNothing), E) to DoNothing.
C5_TerminationMonotonicity ==
    (caller \in Machines /\ prog.tag = "While" /\ stmt = DoNothing) =>
        nsteps = 1 + RunLength(Unfolded(prog), env0, MaxSteps)

C5_Witness ==
    /\ pc = "done"
    /\ prog.tag = "While"
    /\ prog.body # DoNothing
    /\ nsteps > 10
    /\ RunLength(Unfolded(prog), env0, MaxSteps) = nsteps - 1

(***************************************************************************)
(* The redex of the next step, in leftmost-innermost order: the            *)
(* subexpression the next reduce contracts.                                *)
(***************************************************************************)
NoRedex == [tag |-> "None"]
RECURSIVE ExprRedex(_)
ExprRedex(e) ==
    IF e.tag \in BinOps
    THEN IF ~IsLiteral(e.l) THEN ExprRedex(e.l)
         ELSE IF ~IsLiteral(e.r) THEN ExprRedex(e.r)
         ELSE e
    ELSE e
\* the statement the next step rewrites: the first of a Sequence until it is DoNothing
RECURSIVE Active(_)
Active(s) ==
    IF s.tag = "Sequence" /\ s.first # DoNothing THEN Active(s.first) ELSE s
StmtRedex(s) ==
    LET a == Active(s)
    IN  CASE a.tag = "Assign" /\ ~IsLiteral(a.expr) -> ExprRedex(a.expr)
          [] a.tag = "If" /\ ~IsLiteral(a.condition) -> ExprRedex(a.condition)
          [] OTHER -> NoRedex
\* a call of Expr::reduce has been made in this transition
ExprCalled == caller = "expr" /\ (nsteps' # nsteps \/ err' # err)
\* the pair of the Machine after a step that panicked
StepFailed(msg) ==
    err' = msg /\ pc' = "panic" /\ stmt' = stmt /\ env' = env /\ nsteps' = nsteps
ExprFailed(msg) ==
    eret' = Panic(msg) /\ err' = msg /\ expr' = expr /\ env' = env

C6_Reducible ==
    /\ caller \in Machines =>
          /\ StmtIsReducible(stmt) <=> stmt.tag \in {"Assign", "If", "Sequence", "While"}
          /\ ~StmtIsReducible(stmt) <=> stmt = DoNothing
    /\ caller = "expr" =>
          /\ ExprIsReducible(expr) <=> expr.tag \in BinOps \cup {"Variable"}
          /\ ~ExprIsReducible(expr) <=> expr.tag \in {"Number", "Boolean"}
C6_TerminalStep ==
    /\ (Stepped /\ stmt = DoNothing) => StepFailed(ReduceNotSupported)
    /\ (ExprCalled /\ IsLiteral(expr)) => ExprFailed(ReduceNotSupported)
\* C6: is_reducible is false exactly for DoNothing among statements and for
\* Number and Boolean among expressions; a step on DoNothing, and reduce on a
\* Number or Boolean, panics ("reduce() not supported") and changes nothing.
C6_TerminalNeverStepped == []C6_Reducible /\ [][C6_TerminalStep]_vars

C6_Witness ==
    /\ caller = "host"
    /\ nsteps > 0
    /\ stmt = DoNothing
    /\ pc = "panic"
    /\ err = ReduceNotSupported

Unbound(r, en) == r.tag = "Variable" /\ r.name \notin DOMAIN en
C7_BigStep ==
    /\ (caller \in Machines /\ Unbound(StmtRedex(prog), env0) /\ big # Pending)
          => big = Panic(NoEntryFound)
    /\ (caller = "expr" /\ nsteps = 0 /\ Unbound(ExprRedex(expr), env0) /\ ebig # Pending)
          => ebig = Panic(NoEntryFound)
C7_SmallStep ==
    /\ (Stepped /\ Unbound(StmtRedex(stmt), env)) => StepFailed(NoEntryFound)
    /\ (ExprCalled /\ Unbound(ExprRedex(expr), env)) => ExprFailed(NoEntryFound)
\* C7: when the next redex is a Variable whose name the environment does not
\* bind, the small-step call panics on the lookup and leaves term and
\* environment as they were, and big-step evaluation of the same term panics
\* on the lookup too: no value is substituted and no binding is created.
C7_UnboundVariable == []C7_BigStep /\ [][C7_SmallStep]_vars

C7_Witness ==
    /\ caller = "run"
    /\ nsteps > 0
    /\ pc = "panic"
    /\ err = NoEntryFound
    /\ Unbound(StmtRedex(stmt), env)
    /\ env # env0
    /\ big = Panic(NoEntryFound)

NotBothNumber(a, b) == ~(a.tag = "Number" /\ b.tag = "Number")
IllTyped(r) ==
    r.tag \in BinOps /\ IsLiteral(r.l) /\ IsLiteral(r.r) /\ NotBothNumber(r.l, r.r)
EvaluatesIllTyped(e, en) ==
    /\ e.tag \in BinOps
    /\ LET a == ExprEvalute(e.l, en)
           b == ExprEvalute(e.r, en)
       IN  ~IsPanic(a) /\ ~IsPanic(b) /\ NotBothNumber(a, b)
C8_BigStep ==
    /\ (caller = "expr" /\ nsteps = 0 /\ ebig # Pending /\ EvaluatesIllTyped(expr, env0))
          => ebig = Panic(InvalidExpr)
    /\ (caller \in Machines /\ big # Pending /\ prog.tag = "Assign"
            /\ EvaluatesIllTyped(prog.expr, env0))
          => big = Panic(InvalidExpr)
C8_SmallStep ==
    /\ (Stepped /\ IllTyped(StmtRedex(stmt))) => StepFailed(InvalidExpr)
    /\ (ExprCalled /\ IllTyped(ExprRedex(expr))) => ExprFailed(InvalidExpr)
\* C8: a binary operator whose operands are irreducible and not both Number
\* panics ("invalid expr") in small-step reduce, and one whose operands
\* evaluate to values that are not both Number panics in big-step evalute;
\* neither produces a Number or a Boolean.
C8_TypeMismatch == []C8_BigStep /\ [][C8_SmallStep]_vars

C8_Witness ==
    /\ caller = "expr"
    /\ expr = LessThan(Number(1), Boolean(TRUE))
    /\ eret = Panic(InvalidExpr)
    /\ ebig = Panic(InvalidExpr)

BadCondition(s) ==
    s.tag = "If" /\ IsLiteral(s.condition) /\ s.condition.tag # "Boolean"
EvaluatesBadCondition(s, en) ==
    /\ s.tag \in {"If", "While"}
    /\ LET c == ExprEvalute(s.condition, en)
       IN  ~IsPanic(c) /\ c.tag # "Boolean"
C9_BigStep ==
    (caller \in Machines /\ big # Pending /\ EvaluatesBadCondition(prog, env0))
        => big = Panic(InvalidCondition)
C9_SmallStep ==
    (Stepped /\ BadCondition(Active(stmt))) => StepFailed(InvalidCondition)
\* C9: a step on an If whose condition is irreducible and not a Boolean panics
\* ("invalid condition") instead of selecting a branch, and big-step evalute
\* of an If or While whose condition evaluates to a value that is not a
\* Boolean panics the same way, whatever its branches or body are.
C9_InvalidCondition == []C9_BigStep /\ [][C9_SmallStep]_vars

C9_Witness ==
    /\ caller = "run"
    /\ prog.tag = "While"
    /\ prog.body # DoNothing
    /\ nsteps > 1
    /\ BadCondition(stmt)
    /\ pc = "panic"
    /\ err = InvalidCondition
    /\ big = Panic(InvalidCondition)

C10_Step ==
    /\ err' # err => stmt' = stmt /\ env' = env /\ nsteps' = nsteps
    /\ (stmt' # stmt \/ env' # env) =>
          /\ StmtReduce(stmt, env) = Ok(stmt', env')
          /\ err' = err
C10_StepOfMachine == caller \in Machines => C10_Step
\* C10: a step that panics leaves the Machine's statement and environment as
\* they were, and a step that changes either of them installs exactly the pair
\* one reduce returned: statement and environment are replaced together.
C10_NoPartialResult == [][C10_StepOfMachine]_vars

C10_Witness ==
    /\ caller = "run"
    /\ pc = "panic"
    /\ nsteps >= 2
    /\ env # env0
    /\ stmt.tag = "Sequence"
    /\ out[Len(out)] = [stmt |-> stmt, env |-> env]

(***************************************************************************)
(* C11 (determinism of reduce and evalute) compares two runs from the same *)
(* input; reduce and evalute are operators here, so it has no formula.     *)
(***************************************************************************)

\* what one reduce of the binary node e yields when it returns: only the left
\* operand moves while it is reducible, else only the right one, else the node
\* collapses to the sum, the product or the signed comparison
Contracted(e, e2, en) ==
    IF ~IsLiteral(e.l)
    THEN e2.tag = e.tag /\ e2.r = e.r /\ e2.l = ExprReduce(e.l, en)
    ELSE IF ~IsLiteral(e.r)
    THEN e2.tag = e.tag /\ e2.l = e.l /\ e2.r = ExprReduce(e.r, en)
    ELSE CASE e.tag = "Add" -> e2 = Number(e.l.n + e.r.n)
           [] e.tag = "Multiply" -> e2 = Number(e.l.n * e.r.n)
           [] e.tag = "LessThan" -> e2 = Boolean(e.l.n < e.r.n)
C12_ExprStep ==
    /\ (ExprCalled /\ expr.tag \in BinOps /\ nsteps' # nsteps)
          => Contracted(expr, expr', env)
    /\ (Stepped /\ stmt.tag = "Assign" /\ stmt.expr.tag \in BinOps /\ nsteps' # nsteps)
          => /\ stmt'.tag = "Assign"
             /\ stmt'.name = stmt.name
             /\ Contracted(stmt.expr, stmt'.expr, env)
\* C12: one reduce of an Add, Multiply or LessThan contracts exactly one redex,
\* leftmost first: while the left operand is reducible only it is reduced and
\* the right operand is kept; otherwise, while the right operand is reducible
\* only it is reduced; otherwise the node collapses to a single literal (sum,
\* product by multiplication, signed comparison).
C12_LeftmostInnermost == [][C12_ExprStep]_vars

C12_Witness ==
    /\ caller = "expr"
    /\ nsteps = 1
    /\ "y" \in DOMAIN env
    /\ expr = Multiply(Add(Number(1), Number(1)), Y)
    /\ eret = expr

\* the statement s with the part the next step rewrites replaced by t
RECURSIVE Plug(_, _)
Plug(s, t) ==
    IF s.tag = "Sequence" /\ s.first # DoNothing
    THEN Sequence(Plug(s.first, t), s.second)
    ELSE t

C13_AssignStep ==
    (Stepped /\ Active(stmt).tag = "Assign") =>
        LET a == Active(stmt)
        IN  IF ~IsLiteral(a.expr)
            THEN /\ env' = env
                 /\ nsteps' # nsteps =>
                       stmt' = Plug(stmt, Assign(a.name, ExprReduce(a.expr, env)))
            ELSE /\ err' = err
                 /\ stmt' = Plug(stmt, DoNothing)
                 /\ env' = Insert(env, a.name, a.expr)
C13_AssignState ==
    (caller \in Machines /\ prog.tag = "Assign") =>
        /\ stmt.tag = "Assign" => stmt.name = prog.name /\ env = env0
        /\ stmt = DoNothing =>
              /\ nsteps > 0
              /\ prog.name \in DOMAIN env
              /\ IsLiteral(env[prog.name])
              /\ env = Insert(env0, prog.name, env[prog.name])
\* C13: a step on an Assign whose expression is reducible reduces the
\* expression by one step and keeps the environment; a step on an Assign whose
\* expression is a literal yields DoNothing and binds the name to that literal
\* at once.  While the Assign is present the environment is the initial one,
\* and once the statement is DoNothing the name is bound.
C13_SmallStepAssign == []C13_AssignState /\ [][C13_AssignStep]_vars

C13_Witness ==
    /\ caller = "run"
    /\ prog.tag = "Assign"
    /\ prog.expr.tag \in BinOps
    /\ prog.name \notin DOMAIN env0
    /\ nsteps >= 3
    /\ stmt = DoNothing
    /\ out[nsteps].stmt = Assign(prog.name, env[prog.name])
    /\ out[nsteps].env = env0

C14_IfStep ==
    (Stepped /\ Active(stmt).tag = "If") =>
        LET a == Active(stmt)
        IN  /\ env' = env
            /\ nsteps' # nsteps =>
                  stmt' = Plug(stmt,
                      IF ~IsLiteral(a.condition)
                      THEN If(ExprReduce(a.condition, env), a.consequence, a.alternative)
                      ELSE IF a.condition.b THEN a.consequence ELSE a.alternative)
\* C14: a step on an If never changes the environment: with a reducible
\* condition it reduces the condition by one step and keeps both branches as
\* they are; with Boolean(true) / Boolean(false) it yields the consequence /
\* the alternative exactly as written, nothing inside it reduced.
C14_SmallStepIf == [][C14_IfStep]_vars

C14_Witness ==
    /\ caller = "run"
    /\ prog.tag = "If"
    /\ ExprIsReducible(prog.condition)
    /\ prog.consequence.tag = "Assign"
    /\ prog.consequence # prog.alternative
    /\ nsteps >= 3
    /\ stmt = prog.consequence
    /\ env = env0
    /\ out[nsteps].stmt = If(Boolean(TRUE), prog.consequence, prog.alternative)

C15_SequenceStep ==
    (Stepped /\ stmt.tag = "Sequence") =>
        IF stmt.first = DoNothing
        THEN err' = err /\ stmt' = stmt.second /\ env' = env
        ELSE /\ nsteps' # nsteps =>
                  /\ stmt'.tag = "Sequence"
                  /\ stmt'.second = stmt.second
                  /\ Ok(stmt'.first, env') = StmtReduce(stmt.first, env)
             /\ err' # err => StmtReduce(stmt.first, env) = Panic(err')
C15_SequenceState ==
    (caller \in Machines /\ prog.tag = "Sequence") =>
        LET n1 == RunLength(prog.first, env0, MaxSteps)
        IN  (n1 >= 0 /\ nsteps <= n1) =>
                /\ stmt.tag = "Sequence"
                /\ stmt.second = prog.second
                /\ stmt.first = DoNothing <=> nsteps = n1
\* C15: a step on Sequence(first, second) with first = DoNothing yields second
\* and the same environment; otherwise it reduces first by one step, keeps
\* second as it is and carries the environment of that inner step.  Until
\* first has become DoNothing the second statement is the one written.
C15_SmallStepSequence == []C15_SequenceState /\ [][C15_SequenceStep]_vars

C15_Witness ==
    /\ caller = "run"
    /\ prog.tag = "Sequence"
    /\ prog.first.tag = "Assign"
    /\ prog.second.tag = "Assign"
    /\ prog.second.name # prog.first.name
    /\ prog.second.name \notin DOMAIN env0
    /\ nsteps >= 3
    /\ stmt = prog.second
    /\ env # env0
    /\ out[nsteps].stmt = Sequence(DoNothing, prog.second)

\* C16: big-step Assign(name, expr) returns the input environment with name
\* bound to what expr evaluates to in the input environment (x = x + 1 with
\* x = 1 gives x = 2), whether name was bound or not; every other name keeps
\* its binding, no name is removed and no other name is added.  DoNothing
\* returns the input environment.
C16_BigStepAssign ==
    (caller \in Machines /\ big # Pending) =>
        /\ prog = DoNothing => big = Returned(env0)
        /\ prog.tag = "Assign" =>
              LET v == ExprEvalute(prog.expr, env0)
              IN  IF IsPanic(v) THEN big = v
                  ELSE /\ big.tag = "Returned"
                       /\ DOMAIN big.env = DOMAIN env0 \cup {prog.name}
                       /\ big.env[prog.name] = v
                       /\ \A k \in DOMAIN env0 \ {prog.name} : big.env[k] = env0[k]
        /\ (prog = Assign("x", Add(X, Number(1))) /\ "x" \in DOMAIN env0
                /\ env0["x"] = Number(1))
              => big.tag = "Returned" /\ big.env["x"] = Number(2)

C16_Witness ==
    /\ caller \in Machines
    /\ prog = Assign("x", Add(X, Number(1)))
    /\ DOMAIN env0 = Names
    /\ env0["x"] = Number(1)
    /\ big = Returned([env0 EXCEPT !["x"] = Number(2)])

\* C17 as stated: Expr::evalute, whenever it returns, returns a Number or a
\* Boolean, for every expression and every environment.
C17_LiteralEveryEnv ==
    (caller = "expr" /\ ebig # Pending /\ ~IsPanic(ebig)) => IsLiteral(ebig)

\* C17: in an environment that binds every name to a Number or a Boolean,
\* Expr::evalute, whenever it returns, returns a Number or a Boolean, never a
\* Variable or an Add / Multiply / LessThan node.
C17_Literal ==
    (caller = "expr" /\ ebig # Pending /\ ~IsPanic(ebig) /\ LiteralEnv(env0))
        => IsLiteral(ebig)

C17_Witness ==
    /\ caller = "expr"
    /\ LiteralEnv(env0)
    /\ expr.tag = "LessThan"
    /\ expr.l = Add(X, Number(1))
    /\ expr.r = Y
    /\ ebig = Boolean(FALSE)

\* programs whose loop condition never becomes false, with the number of
\* steps after which the Machine holds the While again
Forever == {While(Boolean(TRUE), DoNothing), While(Boolean(TRUE), Assign("y", Number(1)))}
Period(w) == IF w.body = DoNothing THEN 3 ELSE 4
\* C18: on While(Boolean(true), b), b being DoNothing or y = 1, every state of
\* the Machine has a reducible statement, no step panics, run never returns,
\* the statement is the While again after every 3 (4) steps, and the next
\* step is enabled for as long as the step counter of the model has not
\* reached its cap MaxSteps: no smaller bound cuts the run off.  Big-step
\* evaluation of the same program is still recursing after Fuel iterations.
C18_NoStepBound ==
    (caller \in Machines /\ prog \in Forever) =>
        /\ StmtIsReducible(stmt)
        /\ stmt # DoNothing
        /\ pc \notin {"done", "panic"}
        /\ err = NoPanic
        /\ ~ENABLED RunFinish
        /\ nsteps < MaxSteps => ENABLED (RunObserve \/ RunStep \/ HostStep)
        /\ nsteps % Period(prog) = 0 => stmt = prog
        /\ nsteps % Period(prog) = 1 => stmt = Unfolded(prog)
        /\ big # Pending => big = Recursing

C18_Witness ==
    /\ caller = "run"
    /\ prog = While(Boolean(TRUE), DoNothing)
    /\ nsteps >= 21
    /\ stmt = prog
    /\ Len(out) = nsteps
    /\ pc = "run"
    /\ big = Recursing

C19_EnvState ==
    (caller \in Machines /\ LiteralEnv(env0)) =>
        /\ LiteralEnv(env)
        /\ DOMAIN env0 \subseteq DOMAIN env
        /\ \A i \in 1..Len(out) : LiteralEnv(out[i].env)
        /\ big.tag = "Returned" =>
              LiteralEnv(big.env) /\ DOMAIN env0 \subseteq DOMAIN big.env
C19_EnvStep ==
    (caller \in Machines /\ LiteralEnv(env0)) =>
        /\ DOMAIN env \subseteq DOMAIN env'
        /\ env' # env =>
              LET a == Active(stmt)
              IN  /\ Stepped
                  /\ a.tag = "Assign"
                  /\ IsLiteral(a.expr)
                  /\ stmt' = Plug(stmt, DoNothing)
                  /\ env' = Insert(env, a.name, a.expr)
\* C19: when the initial environment binds every name to a Number or a
\* Boolean, so does the environment of every state of the Machine, every
\* environment run() prints and the environment big-step evaluation returns;
\* the Machine's environment changes only in the step that turns an Assign
\* whose expression is a literal into DoNothing, and no name loses its binding.
C19_EnvironmentValues == []C19_EnvState /\ [][C19_EnvStep]_vars

C19_Witness ==
    /\ caller = "run"
    /\ LiteralEnv(env0)
    /\ DOMAIN env0 = Names
    /\ prog.tag = "While"
    /\ prog.body.tag = "Assign"
    /\ ExprIsReducible(prog.body.expr)
    /\ pc = "done"
    /\ env # env0
    /\ big = Returned(env)

\* the panics of an unbound variable, an invalid operand, an invalid condition
ErrorKinds == {NoEntryFound, InvalidExpr, InvalidCondition}
\* C20: for an initial environment that binds every name to a Number or a
\* Boolean, Machine::run from (prog, env0) panics exactly when big-step
\* evaluation of (prog, env0) panics, and with the same message: a run that
\* has panicked means evaluation panics with that message, a run that has
\* returned means evaluation returns, and when evaluation panics the run has
\* not returned and panics before the step counter reaches its cap.
C20_FailureAgreement ==
    (caller = "run" /\ LiteralEnv(env0) /\ big # Pending) =>
        /\ pc = "panic" => big = Panic(err) /\ err \in ErrorKinds
        /\ pc = "done" => big.tag = "Returned"
        /\ IsPanic(big) =>
              /\ big.msg \in ErrorKinds
              /\ pc # "done"
              /\ pc # "panic" => nsteps < MaxSteps /\ ENABLED (RunObserve \/ RunStep)
        /\ big = Recursing => pc \notin {"done", "panic"}

C20_Witness ==
    /\ caller = "run"
    /\ LiteralEnv(env0)
    /\ "y" \notin DOMAIN env0
    /\ prog.tag = "Assign"
    /\ prog.expr.tag \in BinOps
    /\ prog.expr.l = Add(X, Number(1))
    /\ prog.expr.r = Y
    /\ pc = "panic"
    /\ nsteps = 1
    /\ err = InvalidExpr
    /\ big = Panic(InvalidExpr)
====
